---- MODULE Spec2Model ----
(***************************************************************************)
(* A model of the page-aligned file buffers of hnakamur/filebuffer:        *)
(*   FileBuffer       (src/filebuffer.go)       sparse, ReadAt/WriteAt     *)
(*   PagedFileBuffer  (src/unnamed/part_000)    sparse, GetAt/PutAt        *)
(*   WholeFileBuffer  (src/wholefilebuffer.go)  contiguous, ReadAt/WriteAt *)
(*   WholeFileBuffer  (src/unnamed/part_002)    contiguous, GetAt/PutAt    *)
(* and of the vectored I/O executor (src/vectorio.go, vectorio_linux.go).  *)
(* wholefilebuffer.go:174-367 is an older copy of the GetAt/PutAt form     *)
(* without the offset checks; the model follows part_002.                  *)
(* Go slices are sequences; a Go index i is the sequence index i + 1.      *)
(***************************************************************************)
EXTENDS Integers, Sequences, FiniteSets, TLC

VARIABLES impl, b, hist, exec

vars == <<impl, b, hist, exec>>

----------------------------------------------------------------------------
(* Bounds of the model *)

\* the largest fileSize a buffer is constructed with
MaxFileSize == 3
\* the largest pageSize a buffer is constructed with
MaxPageSize == 2
\* the value sysconf(SC_UIO_MAXIOV) reports: segments per vectored call
MaxIov == 2
\* scaled-down width of Go's int64
IntBits == 6
\* the most segments, and the longest segment, the executor is called with
\* on its own
MaxSegs == 3
MaxSegLen == 2

----------------------------------------------------------------------------
(* Go arithmetic and slices *)

Min(x, y) == IF x <= y THEN x ELSE y
Max(x, y) == IF x >= y THEN x ELSE y

\* Go's integer division truncates toward zero
GoDiv(x, y) == IF x >= 0 THEN x \div y ELSE 0 - ((0 - x) \div y)
GoMod(x, y) == x - y * GoDiv(x, y)

RECURSIVE Pow2(_)
Pow2(n) == IF n = 0 THEN 1 ELSE 2 * Pow2(n - 1)

\* the largest value of the integer type of offsets and lengths
MaxInt64 == Pow2(IntBits - 1) - 1

\* two's complement wrap-around of signed integer arithmetic
WrapInt(x) == ((x + Pow2(IntBits - 1)) % Pow2(IntBits)) - Pow2(IntBits - 1)

\* LET x == v IN F(x), with v evaluated once for all the uses of x
With(v, F(_)) == F(v)

\* s[lo:hi]
Slice(s, lo, hi) == SubSeq(s, lo + 1, hi)
\* s[lo:]
SliceFrom(s, lo) == SubSeq(s, lo + 1, Len(s))
\* make([]byte, n)
Zeros(n) == [i \in 1..n |-> 0]
\* the count copy(dst[at:], src) returns
CopyLen(dst, at, src) == Min(Len(dst) - at, Len(src))
\* dst after copy(dst[at:], src)
CopyAt(dst, at, src) ==
    [i \in 1..Len(dst) |-> IF i > at /\ i <= at + Len(src) THEN src[i - at] ELSE dst[i]]

----------------------------------------------------------------------------
(* The backing store and the data of the calls *)

\* byte j of the file before any flush: all bytes distinct and non-zero
InitialFile(fileSize) == [j \in 1..fileSize |-> j]

\* the bytes a write of n bytes passes: distinguishable from the bytes of the
\* file and from the zeroes of a fresh buffer
WriteByte == MaxFileSize + 1
WriteData(n) == [k \in 1..n |-> WriteByte]

\* outcomes of one underlying call: an error, a transfer of at most k bytes
Err == 0 - 1
Full == MaxFileSize + MaxPageSize
Faults == {Err, 0, 1}

RECURSIVE FullPrefix(_)
FullPrefix(n) == IF n = 0 THEN <<>> ELSE <<Full>> \o FullPrefix(n - 1)

\* a script says what the successive underlying calls of one operation do;
\* calls beyond its end transfer everything asked for. These are the scripts
\* of an operation that makes n underlying calls when none is faulty: no
\* fault, or one fault at any of the n calls
ScriptsFor(n) == {<<>>} \cup {FullPrefix(i) \o <<f>> : i \in 0..(n - 1), f \in Faults}

\* a script without fault, longer than any operation consumes
AllFull == FullPrefix(MaxFileSize + 1)
\* the underlying calls made by an operation that returned r under AllFull
NCalls(r) == Len(AllFull) - Len(r.script)

Outcome(script) == IF script = <<>> THEN Full ELSE Head(script)
Rest(script) == IF script = <<>> THEN <<>> ELSE Tail(script)

----------------------------------------------------------------------------
(* Geometry and trackers: filebuffer.go *)

pageCount(fileSize, pageSize) == (fileSize + pageSize - 1) \div pageSize

checkOffsetAndLength(fileSize, off, length) ==
    IF off < 0 THEN "negative offset"
    ELSE IF WrapInt(off + length) > fileSize THEN "offset and length out of bounds"
    ELSE "nil"

\* NOTE: the end of the page range is inclusive
pageRangeForFileRange(pageSize, off, length) ==
    [start |-> GoDiv(off, pageSize), end |-> GoDiv(WrapInt(off + length - 1), pageSize)]

RECURSIVE pageRangesToReadLoop(_, _, _, _, _)
pageRangesToReadLoop(readPages, page, end, count, ranges) ==
    IF page <= end
    THEN IF page \notin readPages
         THEN pageRangesToReadLoop(readPages, page + 1, end, count + 1, ranges)
         ELSE IF count > 0
              THEN pageRangesToReadLoop(readPages, page + 1, end, 0,
                       Append(ranges, [start |-> page - count, end |-> page]))
              ELSE pageRangesToReadLoop(readPages, page + 1, end, count, ranges)
    ELSE IF count > 0
         THEN Append(ranges, [start |-> page - count, end |-> page])
         ELSE ranges

\* a variant that does not coalesce: one range per page that is not read
pageRangesToReadPerPage(readPages, pageSize, off, length) ==
    LET pr == pageRangeForFileRange(pageSize, off, length)
        U == {p \in pr.start..pr.end : p \notin readPages}
    IN [i \in 1..Cardinality(U) |->
           LET p == CHOOSE q \in U : Cardinality({x \in U : x < q}) = i - 1
           IN [start |-> p, end |-> p + 1]]

\* NOTE: the end of the returned page ranges is exclusive
pageRangesToRead(readPages, pageSize, off, length) ==
    LET pr == pageRangeForFileRange(pageSize, off, length)
    IN pageRangesToReadLoop(readPages, pr.start, pr.end, 0, <<>>)

\* bitLen is dirtyPages.Len(), the page count the tracker was made with
RECURSIVE dirtyPageRangesLoop(_, _, _, _, _)
dirtyPageRangesLoop(dirtyPages, bitLen, i, count, ranges) ==
    IF i < bitLen
    THEN IF i \in dirtyPages
         THEN dirtyPageRangesLoop(dirtyPages, bitLen, i + 1, count + 1, ranges)
         ELSE IF count > 0
              THEN dirtyPageRangesLoop(dirtyPages, bitLen, i + 1, 0,
                       Append(ranges, [start |-> i - count, end |-> i]))
              ELSE dirtyPageRangesLoop(dirtyPages, bitLen, i + 1, count, ranges)
    ELSE IF count > 0
         THEN Append(ranges, [start |-> i - count, end |-> i])
         ELSE ranges

\* a variant that does not coalesce: one range per dirty page
dirtyPageRangesPerPage(dirtyPages, bitLen) ==
    LET D == {p \in 0..(bitLen - 1) : p \in dirtyPages}
    IN [i \in 1..Cardinality(D) |->
           LET p == CHOOSE q \in D : Cardinality({x \in D : x < q}) = i - 1
           IN [start |-> p, end |-> p + 1]]

\* NOTE: the end of the returned page ranges is exclusive
dirtyPageRanges(dirtyPages, bitLen) == dirtyPageRangesLoop(dirtyPages, bitLen, 0, 0, <<>>)

setDirty(dirtyPages, pageSize, off, length) ==
    LET pr == pageRangeForFileRange(pageSize, off, length)
    IN dirtyPages \cup (pr.start..pr.end)

----------------------------------------------------------------------------
(* The vectored I/O executor: vectorio.go, vectorio_linux.go.               *)
(* The segments of a call are slices of the buffers of consecutive pages;   *)
(* flat is the concatenation of those buffers and a segment is the sequence *)
(* of the indices of flat it aliases, so that a transfer into or out of a   *)
(* re-sliced segment reaches the page buffer it is a view of.               *)

RECURSIVE Flatten(_)
Flatten(iovs) == IF iovs = <<>> THEN <<>> ELSE Head(iovs) \o Flatten(Tail(iovs))

RECURSIVE iovsTotalLen(_)
iovsTotalLen(iovs) == IF iovs = <<>> THEN 0 ELSE Len(Head(iovs)) + iovsTotalLen(Tail(iovs))

\* a variant that drops the consumed segments and truncates none
RECURSIVE iovsAdjustDropOnly(_, _)
iovsAdjustDropOnly(iovs, n) ==
    IF Len(iovs) > 0 /\ n >= Len(iovs[1])
    THEN iovsAdjustDropOnly(Tail(iovs), n - Len(iovs[1]))
    ELSE iovs

RECURSIVE iovsAdjust(_, _)
iovsAdjust(iovs, n) ==
    IF Len(iovs) > 0 /\ n >= Len(iovs[1])
    THEN iovsAdjust(Tail(iovs), n - Len(iovs[1]))
    ELSE IF Len(iovs) = 0
         THEN <<>>
         ELSE <<SliceFrom(iovs[1], n)>> \o Tail(iovs)

\* unix.Preadv: one vectored read of the file at offset into the segments;
\* it reads what the file holds from offset on, at most what the outcome allows
unixPreadv(file, flat, segs, offset, oc) ==
    LET idx == Flatten(segs)
        avail == Max(0, Len(file) - offset)
        n0 == IF oc = Err THEN 0 ELSE Min(Min(Len(idx), avail), oc)
    IN [n |-> n0,
        err |-> IF oc = Err THEN "EIO" ELSE "nil",
        flat |-> [i \in 1..Len(flat) |->
                    IF \E k \in 1..n0 : idx[k] = i
                    THEN file[offset + (CHOOSE k \in 1..n0 : idx[k] = i)]
                    ELSE flat[i]]]

\* unix.Pwritev: one vectored write of the segments to the file at offset
unixPwritev(file, flat, segs, offset, oc) ==
    LET idx == Flatten(segs)
        n0 == IF oc = Err THEN 0 ELSE Min(Len(idx), oc)
    IN [n |-> n0,
        err |-> IF oc = Err THEN "EIO" ELSE "nil",
        file |-> [j \in 1..Max(Len(file), IF n0 > 0 THEN offset + n0 ELSE 0) |->
                    IF j > offset /\ j <= offset + n0
                    THEN flat[idx[j - offset]]
                    ELSE IF j <= Len(file) THEN file[j] ELSE 0]]

RECURSIVE pwritevLoop(_, _, _, _, _, _)
pwritevLoop(file, flat, iovs, offset, n, script) ==
    IF Len(iovs) > 0
    THEN LET count == Min(Len(iovs), MaxIov)
         IN With(unixPwritev(file, flat, SubSeq(iovs, 1, count), offset, Outcome(script)),
                 LAMBDA r :
                     IF r.err # "nil"
                     THEN [n |-> n + r.n, err |-> r.err, file |-> r.file,
                           script |-> Rest(script)]
                     ELSE pwritevLoop(r.file, flat, SubSeq(iovs, count + 1, Len(iovs)),
                                      offset + r.n, n + r.n, Rest(script)))
    ELSE [n |-> n, err |-> "nil", file |-> file, script |-> script]

pwritev(file, flat, iovs, offset, script) == pwritevLoop(file, flat, iovs, offset, 0, script)

RECURSIVE preadvLoop(_, _, _, _, _, _)
preadvLoop(file, flat, iovs, offset, n, script) ==
    IF Len(iovs) > 0
    THEN LET count == Min(Len(iovs), MaxIov)
         IN With(unixPreadv(file, flat, SubSeq(iovs, 1, count), offset, Outcome(script)),
                 LAMBDA r :
                     IF r.err # "nil" \/ r.n = 0
                     THEN [n |-> n + r.n, err |-> r.err, flat |-> r.flat,
                           script |-> Rest(script)]
                     ELSE preadvLoop(file, r.flat, SubSeq(iovs, count + 1, Len(iovs)),
                                     offset + r.n, n + r.n, Rest(script)))
    ELSE [n |-> n, err |-> "nil", flat |-> flat, script |-> script]

preadv(file, flat, iovs, offset, script) == preadvLoop(file, flat, iovs, offset, 0, script)

\* the error pwritevFull hands to its caller after the loop (vectorio.go:22)
pwritevFullErr(err) == "nil"

RECURSIVE pwritevFullLoop(_, _, _, _, _, _, _)
pwritevFullLoop(file, flat, iovs, offset, done, total, script) ==
    With(pwritev(file, flat, iovs, offset, script),
         LAMBDA r :
             IF r.err # "nil" \/ done + r.n >= total
             THEN [n |-> done + r.n, err |-> pwritevFullErr(r.err), file |-> r.file,
                   script |-> r.script]
             ELSE pwritevFullLoop(r.file, flat, iovsAdjust(iovs, r.n), offset + r.n,
                                  done + r.n, total, r.script))

pwritevFull(file, flat, iovs, offset, script) ==
    LET total == iovsTotalLen(iovs)
    IN IF total = 0
       THEN [n |-> 0, err |-> "nil", file |-> file, script |-> script]
       ELSE pwritevFullLoop(file, flat, iovs, offset, 0, total, script)

\* the error preadvFull hands to its caller after the loop (vectorio.go:40)
preadvFullErr(err) == "nil"

RECURSIVE preadvFullLoop(_, _, _, _, _, _, _)
preadvFullLoop(file, flat, iovs, offset, done, total, script) ==
    With(preadv(file, flat, iovs, offset, script),
         LAMBDA r :
             IF r.err # "nil" \/ r.n = 0 \/ done + r.n >= total
             THEN [n |-> done + r.n, err |-> preadvFullErr(r.err), flat |-> r.flat,
                   script |-> r.script]
             ELSE preadvFullLoop(file, r.flat, iovsAdjust(iovs, r.n), offset + r.n,
                                 done + r.n, total, r.script))

preadvFull(file, flat, iovs, offset, script) ==
    LET total == iovsTotalLen(iovs)
    IN IF total = 0
       THEN [n |-> 0, err |-> "nil", flat |-> flat, script |-> script]
       ELSE preadvFullLoop(file, flat, iovs, offset, 0, total, script)

\* io.ReaderAt of the ReadWriterAt a WholeFileBuffer is given: it fills p from
\* the file at off, or returns an error after a transfer of fewer bytes
ReaderAt_ReadAt(file, p, off, oc) ==
    LET n0 == IF oc = Err THEN 0 ELSE Min(Min(Len(p), Max(0, Len(file) - off)), oc)
    IN [n |-> n0,
        err |-> IF n0 < Len(p) THEN "EIO" ELSE "nil",
        p |-> [i \in 1..Len(p) |-> IF i <= n0 THEN file[off + i] ELSE p[i]]]

\* io.WriterAt of the ReadWriterAt: it writes p to the file at off, or returns
\* an error after a transfer of fewer bytes
WriterAt_WriteAt(file, p, off, oc) ==
    LET n0 == IF oc = Err THEN 0 ELSE Min(Min(Len(p), Max(0, Len(file) - off)), oc)
    IN [n |-> n0,
        err |-> IF n0 < Len(p) THEN "EIO" ELSE "nil",
        file |-> [j \in 1..Len(file) |->
                    IF j > off /\ j <= off + n0 THEN p[j - off] ELSE file[j]]]

----------------------------------------------------------------------------
(* The sparse strategy: filebuffer.go (FileBuffer), part_000 (PagedFileBuffer). *)
(* A buffer is [file, fileSize, pageSize, pages, buf, readPages, dirtyPages];  *)
(* pages maps the resident page numbers to their buffers (a page that is not   *)
(* in DOMAIN pages is nil), buf is the whole-file slice of a WholeFileBuffer.  *)

\* what an operation returns: the buffer after it, its error, its count, the
\* bytes it hands back, the calls it made to the backing store and what is
\* left of the script of outcomes
Result(bb, err, n, data, calls, script) ==
    [b |-> bb, err |-> err, n |-> n, data |-> data, calls |-> calls, script |-> script]

\* the size of the buffer getBuf makes for a page that is not resident
getBufSize(bb, page) ==
    LET off == bb.pageSize * page
    IN IF WrapInt(off + bb.pageSize) > bb.fileSize
       THEN bb.fileSize - off
       ELSE bb.pageSize

\* make([]byte, bufSize) panics on a negative size
getBufPanics(bb, page) == page \notin DOMAIN bb.pages /\ getBufSize(bb, page) < 0

\* the buffer after getBuf(page); the slice returned is its pages[page]
getBuf(bb, page) ==
    IF page \in DOMAIN bb.pages
    THEN bb
    ELSE [bb EXCEPT !.pages = @ @@ (page :> Zeros(getBufSize(bb, page)))]

\* the buffer after iovsForPageRange(pr); the segments returned are the
\* buffers of the pages pr.start .. pr.end-1
RECURSIVE iovsForPageRangeLoop(_, _, _)
iovsForPageRangeLoop(bb, pr, i) ==
    IF i < pr.end - pr.start
    THEN iovsForPageRangeLoop(getBuf(bb, pr.start + i), pr, i + 1)
    ELSE bb

iovsForPageRange(bb, pr) == iovsForPageRangeLoop(bb, pr, 0)

\* the concatenation of the buffers of pages p .. end-1
RECURSIVE FlatOf(_, _, _)
FlatOf(pages, p, end) ==
    IF p >= end THEN <<>> ELSE pages[p] \o FlatOf(pages, p + 1, end)

\* the segments of pages p .. end-1 as indices of that concatenation
RECURSIVE SegsOf(_, _, _, _)
SegsOf(pages, p, end, base) ==
    IF p >= end
    THEN <<>>
    ELSE <<[k \in 1..Len(pages[p]) |-> base + k]>>
             \o SegsOf(pages, p + 1, end, base + Len(pages[p]))

\* the page map once the segments of the pages of pr hold flat
StoreFlat(pages, pr, flat) ==
    [p \in DOMAIN pages |->
        IF p >= pr.start /\ p < pr.end
        THEN LET base == Len(FlatOf(pages, pr.start, p))
             IN SubSeq(flat, base + 1, base + Len(pages[p]))
        ELSE pages[p]]

ReadCall(off, len) == [op |-> "read", off |-> off, len |-> len]
WriteCall(off, len) == [op |-> "write", off |-> off, len |-> len]

\* a variant that leaves the first page of the range unmarked
PrereadMarksAfterFirst(r) == (r.start + 1)..(r.end - 1)

\* a variant that leaves the last page of the range unmarked
PrereadMarksButLast(r) == r.start..(r.end - 2)

\* the pages Preread marks read after the read of range r
PrereadMarks(r) == r.start..(r.end - 1)

RECURSIVE FileBuffer_PrereadLoop(_, _, _, _)
FileBuffer_PrereadLoop(bb, ranges, script, calls) ==
    IF ranges = <<>>
    THEN Result(bb, "nil", 0, <<>>, calls, script)
    ELSE LET r == Head(ranges)
             off == r.start * bb.pageSize
         IN With(iovsForPageRange(bb, r), LAMBDA b0 :
            With(FlatOf(b0.pages, r.start, r.end), LAMBDA flat :
            With(preadvFull(b0.file, flat, SegsOf(b0.pages, r.start, r.end, 0), off, script),
                 LAMBDA x :
            With([b0 EXCEPT !.pages = StoreFlat(@, r, x.flat)], LAMBDA b1 :
                IF x.err # "nil"
                THEN Result(b1, x.err, 0, <<>>,
                            Append(calls, ReadCall(off, Len(flat))), x.script)
                ELSE FileBuffer_PrereadLoop(
                         [b1 EXCEPT !.readPages = @ \cup PrereadMarks(r)],
                         Tail(ranges), x.script,
                         Append(calls, ReadCall(off, Len(flat))))))))

FileBuffer_Preread(bb, off, length, script) ==
    FileBuffer_PrereadLoop(bb, pageRangesToRead(bb.readPages, bb.pageSize, off, length),
                           script, <<>>)

\* PagedFileBuffer.read is the same code as FileBuffer.Preread
PagedFileBuffer_read(bb, off, length, script) ==
    FileBuffer_PrereadLoop(bb, pageRangesToRead(bb.readPages, bb.pageSize, off, length),
                           script, <<>>)

\* the loop of ReadAt and of GetAt over the pages after the first: p is the
\* destination, pos the count of bytes of it already filled
RECURSIVE ReadCopyLoop(_, _, _, _, _)
ReadCopyLoop(bb, p, pos, page, end) ==
    IF page <= end
    THEN LET b1 == getBuf(bb, page)
             buf == b1.pages[page]
         IN ReadCopyLoop(b1, CopyAt(p, pos, buf), pos + CopyLen(p, pos, buf),
                         page + 1, end)
    ELSE [b |-> bb, p |-> p]

FileBuffer_ReadAt(bb, plen, off, script) ==
    LET length == plen
        e == checkOffsetAndLength(bb.fileSize, off, length)
        pre == FileBuffer_Preread(bb, off, length, script)
        r == pageRangeForFileRange(bb.pageSize, off, length)
        offInPage == GoMod(off, bb.pageSize)
        b1 == getBuf(pre.b, r.start)
        src == SliceFrom(b1.pages[r.start], offInPage)
        p0 == Zeros(plen)
        c == ReadCopyLoop(b1, CopyAt(p0, 0, src), CopyLen(p0, 0, src), r.start + 1, r.end)
    IN IF e # "nil" THEN Result(bb, e, 0, <<>>, <<>>, script)
       ELSE IF pre.err # "nil" THEN Result(pre.b, pre.err, 0, <<>>, pre.calls, pre.script)
       ELSE IF getBufPanics(pre.b, r.start)
            THEN Result(pre.b, "panic", 0, <<>>, pre.calls, pre.script)
       ELSE Result(c.b, "nil", length, c.p, pre.calls, pre.script)

\* the loop of WriteAt and of PutAt over the pages after the first: p is what
\* is left of the data
RECURSIVE WriteCopyLoop(_, _, _, _)
WriteCopyLoop(bb, p, page, end) ==
    IF page <= end
    THEN LET b1 == getBuf(bb, page)
             buf == b1.pages[page]
         IN WriteCopyLoop([b1 EXCEPT !.pages[page] = CopyAt(buf, 0, p)],
                          SliceFrom(p, CopyLen(buf, 0, p)), page + 1, end)
    ELSE [b |-> bb, p |-> p]

\* a variant that writes through: the data goes to the backing store as well
WriteCopyThrough(bb, p, off) ==
    LET r == pageRangeForFileRange(bb.pageSize, off, Len(p))
        offInPage == GoMod(off, bb.pageSize)
        b1 == getBuf(bb, r.start)
        buf == b1.pages[r.start]
        c == WriteCopyLoop([b1 EXCEPT !.pages[r.start] = CopyAt(buf, offInPage, p)],
                           SliceFrom(p, CopyLen(buf, offInPage, p)), r.start + 1, r.end)
    IN [b |-> [c.b EXCEPT !.file = CopyAt(@, off, p)], p |-> c.p]

\* the copy of the data into the page buffers, the same in WriteAt and PutAt
WriteCopy(bb, p, off) ==
    LET r == pageRangeForFileRange(bb.pageSize, off, Len(p))
        offInPage == GoMod(off, bb.pageSize)
        b1 == getBuf(bb, r.start)
        buf == b1.pages[r.start]
    IN WriteCopyLoop([b1 EXCEPT !.pages[r.start] = CopyAt(buf, offInPage, p)],
                     SliceFrom(p, CopyLen(buf, offInPage, p)), r.start + 1, r.end)

\* the count WriteAt returns: len(p) of the p the copy loop has re-sliced
FileBuffer_WriteAt_n(p, rest) == Len(rest)

FileBuffer_WriteAt(bb, p, off, script) ==
    LET length == Len(p)
        e == checkOffsetAndLength(bb.fileSize, off, length)
        pre == FileBuffer_Preread(bb, off, length, script)
        c == WriteCopy(pre.b, p, off)
    IN IF e # "nil" THEN Result(bb, e, 0, <<>>, <<>>, script)
       ELSE IF pre.err # "nil" THEN Result(pre.b, pre.err, 0, <<>>, pre.calls, pre.script)
       ELSE IF getBufPanics(pre.b, GoDiv(off, bb.pageSize))
            THEN Result(pre.b, "panic", 0, <<>>, pre.calls, pre.script)
       ELSE Result([c.b EXCEPT !.dirtyPages = setDirty(@, bb.pageSize, off, length)],
                   "nil", FileBuffer_WriteAt_n(p, c.p), <<>>, pre.calls, pre.script)

PagedFileBuffer_GetAt(bb, off, length, script) ==
    LET e == checkOffsetAndLength(bb.fileSize, off, length)
        pre == PagedFileBuffer_read(bb, off, length, script)
        r == pageRangeForFileRange(bb.pageSize, off, length)
        offInPage == GoMod(off, bb.pageSize)
        b1 == getBuf(pre.b, r.start)
        src == SliceFrom(b1.pages[r.start], offInPage)
        data0 == Zeros(length)
        c == ReadCopyLoop(b1, CopyAt(data0, 0, src), Len(src), r.start + 1, r.end)
    IN IF e # "nil" THEN Result(bb, e, 0, <<>>, <<>>, script)
       ELSE IF pre.err # "nil" THEN Result(pre.b, pre.err, 0, <<>>, pre.calls, pre.script)
       ELSE IF getBufPanics(pre.b, r.start)
            THEN Result(pre.b, "panic", 0, <<>>, pre.calls, pre.script)
       ELSE IF r.start = r.end
            THEN Result(b1, "nil", length,
                        Slice(b1.pages[r.start], offInPage, offInPage + length),
                        pre.calls, pre.script)
       \* dest := data[len(buf[offInPage:]):] with the bound beyond len(data)
       ELSE IF Len(src) > length
            THEN Result(b1, "panic", 0, <<>>, pre.calls, pre.script)
       ELSE Result(c.b, "nil", length, c.p, pre.calls, pre.script)

\* a variant that fetches the touched pages first, as WriteAt does
PutAtFetching(bb, data, off, script) == FileBuffer_WriteAt(bb, data, off, script)

PagedFileBuffer_PutAt(bb, data, off, script) ==
    LET length == Len(data)
        e == checkOffsetAndLength(bb.fileSize, off, length)
        c == WriteCopy(bb, data, off)
    IN IF e # "nil" THEN Result(bb, e, 0, <<>>, <<>>, script)
       ELSE IF getBufPanics(bb, GoDiv(off, bb.pageSize))
            THEN Result(bb, "panic", 0, <<>>, <<>>, script)
       ELSE Result([c.b EXCEPT !.dirtyPages = setDirty(@, bb.pageSize, off, length)],
                   "nil", 0, <<>>, <<>>, script)

\* a variant that clears nothing
FlushClearNone(dirtyPages) == dirtyPages

\* what Flush leaves of the dirty tracker once every range is written
FlushClearAll(dirtyPages) == {}

RECURSIVE FileBuffer_FlushLoop(_, _, _, _)
FileBuffer_FlushLoop(bb, ranges, script, calls) ==
    IF ranges = <<>>
    THEN Result([bb EXCEPT !.dirtyPages = FlushClearAll(@)], "nil", 0, <<>>, calls, script)
    ELSE LET r == Head(ranges)
             off == r.start * bb.pageSize
         IN With(iovsForPageRange(bb, r), LAMBDA b0 :
            With(FlatOf(b0.pages, r.start, r.end), LAMBDA flat :
            With(pwritevFull(b0.file, flat, SegsOf(b0.pages, r.start, r.end, 0), off, script),
                 LAMBDA x :
                IF x.err # "nil"
                THEN Result([b0 EXCEPT !.file = x.file], x.err, 0, <<>>,
                            Append(calls, WriteCall(off, Len(flat))), x.script)
                ELSE FileBuffer_FlushLoop([b0 EXCEPT !.file = x.file], Tail(ranges),
                                          x.script,
                                          Append(calls, WriteCall(off, Len(flat)))))))

FileBuffer_Flush(bb, script) ==
    FileBuffer_FlushLoop(bb,
        dirtyPageRanges(bb.dirtyPages, pageCount(bb.fileSize, bb.pageSize)), script, <<>>)

\* PagedFileBuffer.Flush is the same code as FileBuffer.Flush
PagedFileBuffer_Flush(bb, script) ==
    FileBuffer_FlushLoop(bb,
        dirtyPageRanges(bb.dirtyPages, pageCount(bb.fileSize, bb.pageSize)), script, <<>>)

----------------------------------------------------------------------------
(* The contiguous strategy: wholefilebuffer.go (ReadAt/WriteAt/Preread),    *)
(* part_002 (GetAt/PutAt/read).                                             *)

\* the slice expression s[lo:hi] panics when its bounds are out of range
SlicePanics(s, lo, hi) == lo < 0 \/ hi < lo \/ hi > Len(s)

RECURSIVE WholeFileBuffer_PrereadLoop(_, _, _, _)
WholeFileBuffer_PrereadLoop(bb, ranges, script, calls) ==
    IF ranges = <<>>
    THEN Result(bb, "nil", 0, <<>>, calls, script)
    ELSE LET pr == Head(ranges)
             off == pr.start * bb.pageSize
             end == IF pr.end * bb.pageSize > Len(bb.buf)
                    THEN Len(bb.buf)
                    ELSE pr.end * bb.pageSize
             x == ReaderAt_ReadAt(bb.file, Slice(bb.buf, off, end), off, Outcome(script))
             b1 == [bb EXCEPT !.buf = CopyAt(@, off, x.p)]
             calls1 == Append(calls, ReadCall(off, end - off))
         IN IF x.err # "nil"
            THEN Result(b1, x.err, 0, <<>>, calls1, Rest(script))
            ELSE WholeFileBuffer_PrereadLoop(
                     [b1 EXCEPT !.readPages = @ \cup PrereadMarks(pr)],
                     Tail(ranges), Rest(script), calls1)

WholeFileBuffer_Preread(bb, off, length, script) ==
    WholeFileBuffer_PrereadLoop(bb,
        pageRangesToRead(bb.readPages, bb.pageSize, off, length), script, <<>>)

\* part_002: WholeFileBuffer.read is the same code as Preread
WholeFileBuffer_read(bb, off, length, script) ==
    WholeFileBuffer_PrereadLoop(bb,
        pageRangesToRead(bb.readPages, bb.pageSize, off, length), script, <<>>)

WholeFileBuffer_ReadAt(bb, plen, off, script) ==
    LET length == plen
        e == checkOffsetAndLength(Len(bb.buf), off, length)
        pre == WholeFileBuffer_Preread(bb, off, length, script)
    IN IF e # "nil" THEN Result(bb, e, 0, <<>>, <<>>, script)
       ELSE IF pre.err # "nil" THEN Result(pre.b, pre.err, 0, <<>>, pre.calls, pre.script)
       ELSE IF SlicePanics(pre.b.buf, off, WrapInt(off + length))
            THEN Result(pre.b, "panic", 0, <<>>, pre.calls, pre.script)
       ELSE Result(pre.b, "nil", plen,
                   CopyAt(Zeros(plen), 0, Slice(pre.b.buf, off, off + length)),
                   pre.calls, pre.script)

WholeFileBuffer_WriteAt(bb, p, off, script) ==
    LET length == Len(p)
        e == checkOffsetAndLength(Len(bb.buf), off, length)
        pre == WholeFileBuffer_Preread(bb, off, length, script)
    IN IF e # "nil" THEN Result(bb, e, 0, <<>>, <<>>, script)
       ELSE IF pre.err # "nil" THEN Result(pre.b, pre.err, 0, <<>>, pre.calls, pre.script)
       ELSE IF SlicePanics(pre.b.buf, off, Len(pre.b.buf))
            THEN Result(pre.b, "panic", 0, <<>>, pre.calls, pre.script)
       ELSE Result([pre.b EXCEPT !.buf = CopyAt(@, off, p),
                                 !.dirtyPages = setDirty(@, bb.pageSize, off, length)],
                   "nil", Len(p), <<>>, pre.calls, pre.script)

WholeFileBuffer_GetAt(bb, off, length, script) ==
    LET e == checkOffsetAndLength(Len(bb.buf), off, length)
        pre == WholeFileBuffer_read(bb, off, length, script)
    IN IF e # "nil" THEN Result(bb, e, 0, <<>>, <<>>, script)
       ELSE IF pre.err # "nil" THEN Result(pre.b, pre.err, 0, <<>>, pre.calls, pre.script)
       ELSE IF SlicePanics(pre.b.buf, off, WrapInt(off + length))
            THEN Result(pre.b, "panic", 0, <<>>, pre.calls, pre.script)
       ELSE Result(pre.b, "nil", length, Slice(pre.b.buf, off, off + length),
                   pre.calls, pre.script)

WholeFileBuffer_PutAt(bb, data, off, script) ==
    LET length == Len(data)
        e == checkOffsetAndLength(Len(bb.buf), off, length)
    IN IF e # "nil" THEN Result(bb, e, 0, <<>>, <<>>, script)
       ELSE IF SlicePanics(bb.buf, off, Len(bb.buf))
            THEN Result(bb, "panic", 0, <<>>, <<>>, script)
       ELSE Result([bb EXCEPT !.buf = CopyAt(@, off, data),
                              !.dirtyPages = setDirty(@, bb.pageSize, off, length)],
                   "nil", 0, <<>>, <<>>, script)

RECURSIVE WholeFileBuffer_FlushLoop(_, _, _, _)
WholeFileBuffer_FlushLoop(bb, ranges, script, calls) ==
    IF ranges = <<>>
    THEN Result([bb EXCEPT !.dirtyPages = FlushClearAll(@)], "nil", 0, <<>>, calls, script)
    ELSE LET r == Head(ranges)
             off == r.start * bb.pageSize
             end == IF r.end * bb.pageSize > Len(bb.buf)
                    THEN Len(bb.buf)
                    ELSE r.end * bb.pageSize
             x == WriterAt_WriteAt(bb.file, Slice(bb.buf, off, end), off, Outcome(script))
             b1 == [bb EXCEPT !.file = x.file]
             calls1 == Append(calls, WriteCall(off, end - off))
         IN IF x.err # "nil"
            THEN Result(b1, x.err, 0, <<>>, calls1, Rest(script))
            ELSE WholeFileBuffer_FlushLoop(b1, Tail(ranges), Rest(script), calls1)

WholeFileBuffer_Flush(bb, script) ==
    WholeFileBuffer_FlushLoop(bb,
        dirtyPageRanges(bb.dirtyPages, pageCount(Len(bb.buf), bb.pageSize)), script, <<>>)

----------------------------------------------------------------------------
(* The four buffer types behind one set of calls *)

Impls == {"FileBuffer", "PagedFileBuffer", "WholeFileBuffer", "WholeFileBufferGetPut"}
Sparse == {"FileBuffer", "PagedFileBuffer"}
\* the types with ReadAt / WriteAt / Preread, and those with GetAt / PutAt
ReadWriteImpls == {"FileBuffer", "WholeFileBuffer"}
GetPutImpls == {"PagedFileBuffer", "WholeFileBufferGetPut"}

\* New, NewPagedFileBuffer, NewWholeFileBuffer over a file of fileSize bytes
New(i, fileSize, pageSize) ==
    [file |-> InitialFile(fileSize),
     fileSize |-> fileSize,
     pageSize |-> pageSize,
     pages |-> <<>>,
     buf |-> IF i \in Sparse THEN <<>> ELSE Zeros(fileSize),
     readPages |-> {},
     dirtyPages |-> {}]

\* ReadAt(p, off) with len(p) = len, or GetAt(off, len)
Read(i, bb, off, len, script) ==
    CASE i = "FileBuffer" -> FileBuffer_ReadAt(bb, len, off, script)
      [] i = "PagedFileBuffer" -> PagedFileBuffer_GetAt(bb, off, len, script)
      [] i = "WholeFileBuffer" -> WholeFileBuffer_ReadAt(bb, len, off, script)
      [] OTHER -> WholeFileBuffer_GetAt(bb, off, len, script)

\* WriteAt(data, off) or PutAt(data, off)
Write(i, bb, data, off, script) ==
    CASE i = "FileBuffer" -> FileBuffer_WriteAt(bb, data, off, script)
      [] i = "PagedFileBuffer" -> PagedFileBuffer_PutAt(bb, data, off, script)
      [] i = "WholeFileBuffer" -> WholeFileBuffer_WriteAt(bb, data, off, script)
      [] OTHER -> WholeFileBuffer_PutAt(bb, data, off, script)

\* Preread(off, len) of the types that export it
Prefetch(i, bb, off, len, script) ==
    IF i = "FileBuffer" THEN FileBuffer_Preread(bb, off, len, script)
    ELSE WholeFileBuffer_Preread(bb, off, len, script)

\* a variant whose Flush resets the fetched tracker along with the dirty one
FlushForgetting(i, bb, script) ==
    LET r == IF i \in {"FileBuffer", "PagedFileBuffer"}
             THEN FileBuffer_Flush(bb, script)
             ELSE WholeFileBuffer_Flush(bb, script)
    IN [r EXCEPT !.b.readPages = {}]

FlushOf(i, bb, script) ==
    CASE i = "FileBuffer" -> FileBuffer_Flush(bb, script)
      [] i = "PagedFileBuffer" -> PagedFileBuffer_Flush(bb, script)
      [] OTHER -> WholeFileBuffer_Flush(bb, script)

----------------------------------------------------------------------------
(* The state machine: one buffer of one of the four types over one file.    *)
(* Any underlying call of any operation may be the faulty one.              *)
(* hist is bookkeeping about the run: fetchErr = some read, write or        *)
(* preread returned an I/O error, fetchCalls[p] = the read calls issued     *)
(* that cover page p (counted until fetchErr), written = some write has     *)
(* returned nil. exec is the executor taken on its own (see below); here    *)
(* it runs inside the calls of the buffer and exec stays NoExec.            *)

NoExec == [pc |-> "none"]

\* the (fileSize, pageSize) pairs buffers are constructed with
Geometries == (1..MaxFileSize) \X (1..MaxPageSize)

\* the (off, len) pairs of the calls: every range of the file, and those that
\* start before it or end one byte after it
Args(fileSize) ==
    {a \in ((0 - 1)..fileSize) \X (0..(fileSize + 1)) : a[1] + a[2] <= fileSize + 1}

Pages(bb) == 0..(pageCount(Len(bb.file), bb.pageSize) - 1)

\* the pages a call to the backing store covers
CallPages(bb, call) ==
    {p \in Pages(bb) : p * bb.pageSize < call.off + call.len
                         /\ (p + 1) * bb.pageSize > call.off}

RECURSIVE CountCalls(_, _, _)
CountCalls(bb, calls, p) ==
    IF calls = <<>> THEN 0
    ELSE (IF p \in CallPages(bb, Head(calls)) THEN 1 ELSE 0) + CountCalls(bb, Tail(calls), p)

Init ==
    /\ impl \in Impls
    /\ \E g \in Geometries : b = New(impl, g[1], g[2])
    /\ hist = [fetchCalls |-> [p \in 0..MaxFileSize |-> 0],
               fetchErr |-> FALSE, written |-> FALSE]
    /\ exec = NoExec

\* the effect of a call on the state: r is what the call returned
Do(op, r) ==
    /\ b' = r.b
    /\ hist' = [fetchCalls |-> [p \in DOMAIN hist.fetchCalls |->
                    IF hist.fetchErr \/ (op # "Flush" /\ r.err = "EIO") THEN 0
                    ELSE hist.fetchCalls[p]
                      + (IF op = "Flush" THEN 0 ELSE CountCalls(b, r.calls, p))],
                fetchErr |-> hist.fetchErr \/ (op # "Flush" /\ r.err = "EIO"),
                written |-> hist.written \/ (op = "Write" /\ r.err = "nil")]
    /\ UNCHANGED <<impl, exec>>

ReadAt ==
    \E a \in Args(Len(b.file)) :
        /\ impl \in ReadWriteImpls
        /\ \E script \in ScriptsFor(NCalls(Read(impl, b, a[1], a[2], AllFull))) :
              Do("Read", Read(impl, b, a[1], a[2], script))

WriteAt ==
    \E a \in Args(Len(b.file)) :
        /\ impl \in ReadWriteImpls
        /\ \E script \in ScriptsFor(NCalls(Write(impl, b, WriteData(a[2]), a[1], AllFull))) :
              Do("Write", Write(impl, b, WriteData(a[2]), a[1], script))

\* Preread validates nothing: its callers pass ranges of the file
Preread ==
    \E a \in Args(Len(b.file)) :
        /\ impl \in ReadWriteImpls
        /\ a[1] >= 0 /\ a[1] + a[2] <= Len(b.file)
        /\ \E script \in ScriptsFor(NCalls(Prefetch(impl, b, a[1], a[2], AllFull))) :
              Do("Preread", Prefetch(impl, b, a[1], a[2], script))

GetAt ==
    \E a \in Args(Len(b.file)) :
        /\ impl \in GetPutImpls
        /\ \E script \in ScriptsFor(NCalls(Read(impl, b, a[1], a[2], AllFull))) :
              Do("Read", Read(impl, b, a[1], a[2], script))

PutAt ==
    \E a \in Args(Len(b.file)) :
        /\ impl \in GetPutImpls
        /\ Do("Write", Write(impl, b, WriteData(a[2]), a[1], <<>>))

Flush ==
    \E script \in ScriptsFor(NCalls(FlushOf(impl, b, AllFull))) :
        Do("Flush", FlushOf(impl, b, script))

Next == ReadAt \/ WriteAt \/ Preread \/ GetAt \/ PutAt \/ Flush

Spec == Init /\ [][Next]_vars

----------------------------------------------------------------------------
(* The executor on its own, one underlying call per step: pwritevFull and   *)
(* preadvFull (vectorio.go) around pwritev and preadv (vectorio_linux.go),  *)
(* called with any list of segments and any outcome of every unix.Pwritev / *)
(* unix.Preadv. exec holds the arguments (fn, file, flat, iovs0, offset0),  *)
(* the variables of the loop of pwritevFull / preadvFull (iovs, offset,     *)
(* done, total), those of the loop of pwritev / preadv (in_iovs, in_offset, *)
(* in_n), the return (ret_n, ret_err) and bookkeeping about the run:        *)
(* called = an underlying call was issued, tick = the parity of their       *)
(* number, erred = one returned an error, stalled = one returned zero bytes *)
(* with no error, last = the segments of the last one, sentFull = the       *)
(* segments passed so far to calls that transferred everything they were    *)
(* given, twice = one of those was passed to two such calls.                *)

\* the segment lists the executor is called with, by the lengths of the segments
RECURSIVE SegLens(_)
SegLens(n) ==
    IF n = 0 THEN {<<>>}
    ELSE SegLens(n - 1) \cup {Append(l, k) : l \in {x \in SegLens(n - 1) : Len(x) = n - 1},
                                             k \in 0..MaxSegLen}

RECURSIVE SumLens(_)
SumLens(lens) == IF lens = <<>> THEN 0 ELSE Head(lens) + SumLens(Tail(lens))

\* segments of the given lengths laid out back-to-back from index base + 1
RECURSIVE SegsOfLens(_, _)
SegsOfLens(lens, base) ==
    IF lens = <<>> THEN <<>>
    ELSE <<[k \in 1..Head(lens) |-> base + k]>> \o SegsOfLens(Tail(lens), base + Head(lens))

\* the bytes of the segments of a write: all distinct and non-zero
SegBytes(n) == [k \in 1..n |-> k]

\* the outcomes of one underlying call: an error, or a transfer of at most k bytes
ExecOutcomes == {Err} \cup (0..(MaxSegs * MaxSegLen))

\* the segment of iovs0 that the non-empty segment seg is, or is the rest of
SegId(iovs0, seg) == CHOOSE i \in DOMAIN iovs0 : \E k \in DOMAIN iovs0[i] : iovs0[i][k] = seg[Len(seg)]
SegIds(iovs0, segs) == {SegId(iovs0, segs[i]) : i \in {j \in DOMAIN segs : segs[j] # <<>>}}

ExecStart(fn, lens, offset0) ==
    [fn |-> fn,
     file |-> IF fn = "pwritevFull" THEN Zeros(offset0 + SumLens(lens))
              ELSE InitialFile(offset0 + SumLens(lens)),
     flat |-> IF fn = "pwritevFull" THEN SegBytes(SumLens(lens)) ELSE Zeros(SumLens(lens)),
     iovs0 |-> SegsOfLens(lens, 0), offset0 |-> offset0,
     pc |-> "start",
     iovs |-> SegsOfLens(lens, 0), offset |-> offset0, done |-> 0, total |-> 0,
     in_iovs |-> <<>>, in_offset |-> 0, in_n |-> 0,
     ret_n |-> 0, ret_err |-> "nil",
     called |-> FALSE, tick |-> 0, erred |-> FALSE, stalled |-> FALSE,
     last |-> <<>>, sentFull |-> {}, twice |-> FALSE]

\* a variant that never takes the short cut of a zero total
NeverShortCircuits(total) == FALSE

\* if total == 0 { return 0, nil }
ShortCircuits(total) == total = 0

\* return done, err
ExecReturn(e, n, err) == [e EXCEPT !.pc = "done", !.ret_n = n, !.ret_err = err]

\* the call of pwritev / preadv with the iovs and offset of the loop of
\* pwritevFull / preadvFull: its loop issues a call if there is a segment
\* left; with none it returns (0, nil) at once, which ends the loop around it
\* when done >= total and lets it run forever with no call otherwise
ExecInner(e) ==
    IF e.iovs # <<>>
    THEN [e EXCEPT !.pc = "call", !.in_iovs = e.iovs, !.in_offset = e.offset, !.in_n = 0]
    ELSE IF e.done >= e.total \/ e.fn = "preadvFull"
         THEN ExecReturn(e, e.done, IF e.fn = "pwritevFull" THEN pwritevFullErr("nil")
                                    ELSE preadvFullErr("nil"))
         ELSE [e EXCEPT !.pc = "spin"]

\* a variant without the retry: it returns after the first pwritev
pwritevFullNoRetry(e, n, err) ==
    ExecReturn([e EXCEPT !.done = @ + n], e.done + n, pwritevFullErr(err))

\* pwritev returned (n, err) to the loop of pwritevFull
pwritevFullAfter(e, n, err) ==
    IF err # "nil" \/ e.done + n >= e.total
    THEN ExecReturn([e EXCEPT !.done = @ + n], e.done + n, pwritevFullErr(err))
    ELSE ExecInner([e EXCEPT !.done = @ + n, !.iovs = iovsAdjust(@, n), !.offset = @ + n])

\* preadv returned (n, err) to the loop of preadvFull
preadvFullAfter(e, n, err) ==
    IF err # "nil" \/ n = 0 \/ e.done + n >= e.total
    THEN ExecReturn([e EXCEPT !.done = @ + n], e.done + n, preadvFullErr(err))
    ELSE ExecInner([e EXCEPT !.done = @ + n, !.iovs = iovsAdjust(@, n), !.offset = @ + n])

\* the bookkeeping of one underlying call given the segments chunk that
\* returned (n0, err)
ExecNote(e, chunk, n0, err) ==
    LET full == err = "nil" /\ n0 = iovsTotalLen(chunk)
        ids == SegIds(e.iovs0, chunk)
    IN [e EXCEPT !.called = TRUE, !.tick = 1 - @,
                 !.erred = @ \/ err # "nil",
                 !.stalled = @ \/ (err = "nil" /\ n0 = 0),
                 !.last = chunk,
                 !.sentFull = IF full THEN @ \cup ids ELSE @,
                 !.twice = @ \/ (full /\ ids \cap e.sentFull # {})]

\* exec is wherever Spec leaves it; the buffer plays no part here
ExecInit ==
    /\ impl = "FileBuffer"
    /\ b = New("FileBuffer", 1, 1)
    /\ hist = [fetchCalls |-> [p \in 0..MaxFileSize |-> 0],
               fetchErr |-> FALSE, written |-> FALSE]
    /\ \E fn \in {"pwritevFull", "preadvFull"}, lens \in SegLens(MaxSegs), offset0 \in 0..1 :
           exec = ExecStart(fn, lens, offset0)

\* the entry of pwritevFull / preadvFull, up to the first underlying call
ExecEnter ==
    /\ exec.pc = "start"
    /\ LET total == iovsTotalLen(exec.iovs)
       IN exec' = IF ShortCircuits(total)
                  THEN ExecReturn([exec EXCEPT !.total = total], 0, "nil")
                  ELSE ExecInner([exec EXCEPT !.total = total, !.done = 0])
    /\ UNCHANGED <<impl, b, hist>>

\* one unix.Pwritev of the loop of pwritev, and what follows it up to the
\* next underlying call or the return of pwritevFull
ExecPwritev ==
    /\ exec.pc = "call"
    /\ exec.fn = "pwritevFull"
    /\ \E oc \in ExecOutcomes :
           LET count == Min(Len(exec.in_iovs), MaxIov)
               chunk == SubSeq(exec.in_iovs, 1, count)
               r == unixPwritev(exec.file, exec.flat, chunk, exec.in_offset, oc)
               e1 == [ExecNote(exec, chunk, r.n, r.err) EXCEPT !.file = r.file]
               rest == SubSeq(exec.in_iovs, count + 1, Len(exec.in_iovs))
           IN exec' = IF r.err # "nil"
                      THEN pwritevFullAfter(e1, exec.in_n + r.n, r.err)
                      ELSE IF Len(rest) > 0
                           THEN [e1 EXCEPT !.in_iovs = rest, !.in_offset = @ + r.n,
                                           !.in_n = @ + r.n]
                           ELSE pwritevFullAfter(e1, exec.in_n + r.n, "nil")
    /\ UNCHANGED <<impl, b, hist>>

\* one unix.Preadv of the loop of preadv, and what follows it up to the next
\* underlying call or the return of preadvFull
ExecPreadv ==
    /\ exec.pc = "call"
    /\ exec.fn = "preadvFull"
    /\ \E oc \in ExecOutcomes :
           LET count == Min(Len(exec.in_iovs), MaxIov)
               chunk == SubSeq(exec.in_iovs, 1, count)
               r == unixPreadv(exec.file, exec.flat, chunk, exec.in_offset, oc)
               e1 == [ExecNote(exec, chunk, r.n, r.err) EXCEPT !.flat = r.flat]
               rest == SubSeq(exec.in_iovs, count + 1, Len(exec.in_iovs))
           IN exec' = IF r.err # "nil" \/ r.n = 0
                      THEN preadvFullAfter(e1, exec.in_n + r.n, r.err)
                      ELSE IF Len(rest) > 0
                           THEN [e1 EXCEPT !.in_iovs = rest, !.in_offset = @ + r.n,
                                           !.in_n = @ + r.n]
                           ELSE preadvFullAfter(e1, exec.in_n + r.n, "nil")
    /\ UNCHANGED <<impl, b, hist>>

ExecNext == ExecEnter \/ ExecPwritev \/ ExecPreadv

ExecSpec == ExecInit /\ [][ExecNext]_vars

\* the caller of the executor keeps running: it issues its next call
ExecLive == ExecSpec /\ WF_vars(ExecNext)

----------------------------------------------------------------------------
(* Properties. A property about a call is stated over every reachable state *)
(* of the buffer and every input of the call: r is what the call returns    *)
(* when it is made in the current state.                                    *)

\* the ranges of the file: off >= 0 and off + len <= fileSize
ValidArgs(bb) == {a \in Args(bb.fileSize) : a[1] >= 0 /\ a[1] + a[2] <= bb.fileSize}

\* the scripts of outcomes the calls of an operation may meet
ReadScripts(bb, a) == ScriptsFor(NCalls(Read(impl, bb, a[1], a[2], AllFull)))
FlushScripts(bb) == ScriptsFor(NCalls(FlushOf(impl, bb, AllFull)))

\* the bytes of page p: in the backing store, and in the buffer
PageEnd(bb, p) == Min((p + 1) * bb.pageSize, bb.fileSize)
FileBytes(bb, p) == Slice(bb.file, p * bb.pageSize, PageEnd(bb, p))
BufferBytes(bb, p) ==
    IF impl \in Sparse THEN bb.pages[p] ELSE Slice(bb.buf, p * bb.pageSize, PageEnd(bb, p))

\* C1: in every reachable state of a GetAt/PutAt buffer, for every range of
\* the file, GetAt(off, len(data)) right after PutAt(data, off) returns data
C1_ReadYourWrites ==
    impl \in GetPutImpls =>
        \A a \in ValidArgs(b) :
            LET w == Write(impl, b, WriteData(a[2]), a[1], <<>>)
                r == Read(impl, w.b, a[1], a[2], <<>>)
            IN w.err = "nil" /\ r.err = "nil" /\ r.data = WriteData(a[2])

\* C2: on a buffer no write was applied to and whose earlier reads all
\* returned without error, a read of any range of the file returns without
\* panic, and when it returns no error it returns the bytes of the backing
\* store in that range
C2_ReadRoundTrip ==
    (~hist.written /\ ~hist.fetchErr) =>
        \A a \in ValidArgs(b) : \A script \in ReadScripts(b, a) :
            LET r == Read(impl, b, a[1], a[2], script)
            IN /\ r.err \in {"nil", "EIO"}
               /\ r.err = "nil" => r.data = Slice(b.file, a[1], a[1] + a[2])

\* C3: after a Flush that returns no error, the backing store's bytes of
\* every page that was dirty at the call equal the buffer's bytes of that page
C3_FlushWritesDirtyPages ==
    \A script \in FlushScripts(b) :
        LET r == FlushOf(impl, b, script)
        IN r.err = "nil" =>
               \A p \in b.dirtyPages : FileBytes(r.b, p) = BufferBytes(r.b, p)

\* C4: as long as no read, write or preread has returned an I/O error, every
\* page has been covered by at most one read call to the backing store
C4_AtMostOneFetch ==
    ~hist.fetchErr => \A p \in Pages(b) : hist.fetchCalls[p] <= 1

C4_Witness ==
    /\ Cardinality(Pages(b)) >= 3
    /\ \A p \in Pages(b) : hist.fetchCalls[p] = 1
    /\ ~hist.fetchErr
    /\ hist.written
    /\ b.dirtyPages = {}

\* the calls checked for their validation: those of Args and one whose end
\* is beyond the largest integer
Requests(bb) == Args(bb.fileSize) \cup {<<MaxInt64, 2>>}

\* r is the return of a call that failed its validation with error e and
\* did nothing else
Rejected(r, e) == r.err = e /\ r.calls = <<>> /\ r.b = b

\* C5: a read or a write with off < 0 fails with the negative-offset error,
\* one with off >= 0 and off + length > fileSize fails with the
\* out-of-bounds error; neither issues a call to the backing store nor changes
\* the buffer, the fetched tracker or the dirty tracker
C5_ValidationErrors ==
    \A a \in Requests(b) :
        LET r == Read(impl, b, a[1], a[2], <<>>)
            w == Write(impl, b, WriteData(a[2]), a[1], <<>>)
        IN /\ a[1] < 0 => Rejected(r, "negative offset") /\ Rejected(w, "negative offset")
           /\ (a[1] >= 0 /\ a[1] + a[2] > b.fileSize) =>
                  /\ Rejected(r, "offset and length out of bounds")
                  /\ Rejected(w, "offset and length out of bounds")

\* the scripts of outcomes the calls of a write or of a preread may meet
WriteScripts(bb, a) == ScriptsFor(NCalls(Write(impl, bb, WriteData(a[2]), a[1], AllFull)))
PrefetchScripts(bb, a) == ScriptsFor(NCalls(Prefetch(impl, bb, a[1], a[2], AllFull)))

\* r is the return of a call that neither wrote to the backing store nor
\* changed a byte of it
StoreUntouched(r) == r.b.file = b.file /\ \A i \in DOMAIN r.calls : r.calls[i].op = "read"

\* C6: no read, write or preread, whatever its arguments and whatever the
\* outcomes of the calls it makes, writes to the backing store or changes a
\* byte of it: the backing store changes only in Flush
C6_WritesLeaveStoreAlone ==
    \A a \in Args(b.fileSize) :
        /\ \A script \in WriteScripts(b, a) :
               StoreUntouched(Write(impl, b, WriteData(a[2]), a[1], script))
        /\ \A script \in ReadScripts(b, a) :
               StoreUntouched(Read(impl, b, a[1], a[2], script))
        /\ (impl \in ReadWriteImpls /\ a \in ValidArgs(b)) =>
               \A script \in PrefetchScripts(b, a) :
                   StoreUntouched(Prefetch(impl, b, a[1], a[2], script))

C6_Witness ==
    /\ b.dirtyPages # {}
    /\ b.readPages # {}
    /\ hist.written
    /\ b.file = InitialFile(b.fileSize)

\* C7: a Flush right after a Flush that returned no error makes no call to
\* the backing store, and neither does a Flush of a buffer that no write was
\* applied to
C7_FlushIdempotent ==
    /\ \A script \in FlushScripts(b) :
           LET r == FlushOf(impl, b, script)
           IN r.err = "nil" => NCalls(FlushOf(impl, r.b, AllFull)) = 0
                                 /\ FlushOf(impl, r.b, <<>>).calls = <<>>
    /\ ~hist.written => NCalls(FlushOf(impl, b, AllFull)) = 0
                          /\ FlushOf(impl, b, <<>>).calls = <<>>

C7_Witness ==
    /\ Cardinality(b.dirtyPages) >= 2
    /\ FlushOf(impl, b, <<>>).err = "nil"
    /\ FlushOf(impl, b, <<>>).calls # <<>>

\* the maximal runs [s, e) of consecutive pages of the set S
Runs(S) ==
    {run \in (0..MaxFileSize) \X (0..MaxFileSize) :
        /\ run[1] < run[2]
        /\ \A p \in run[1]..(run[2] - 1) : p \in S
        /\ (run[1] - 1) \notin S
        /\ run[2] \notin S}

\* calls is one call of kind op per run of S, in ascending order, the call of
\* run [s, e) at s*pageSize with length min(e*pageSize, fileSize) - s*pageSize
OneCallPerRun(bb, calls, op, S) ==
    /\ Len(calls) = Cardinality(Runs(S))
    /\ \A i \in DOMAIN calls :
           \E run \in Runs(S) :
               calls[i] = [op |-> op,
                           off |-> run[1] * bb.pageSize,
                           len |-> Min(run[2] * bb.pageSize, bb.fileSize)
                                     - run[1] * bb.pageSize]
    /\ \A i \in DOMAIN calls : \A j \in DOMAIN calls :
           i < j => calls[i].off < calls[j].off

\* the pages of the touched page range [off/pageSize, (off+length-1)/pageSize],
\* the divisions being those of the integer type
Touched(bb, off, length) ==
    {p \in Pages(bb) : GoDiv(off, bb.pageSize) <= p
                         /\ p <= GoDiv(off + length - 1, bb.pageSize)}

\* C8: a read or a preread of a range of the file that returns no error has
\* made exactly one read call per maximal run of touched pages that were not
\* fetched, in ascending order, each at the offset of its run and over the
\* pages of its run up to the end of the file
C8_OneReadPerUnfetchedRun ==
    \A a \in ValidArgs(b) :
        /\ \A script \in ReadScripts(b, a) :
               LET r == Read(impl, b, a[1], a[2], script)
               IN r.err = "nil" =>
                      OneCallPerRun(b, r.calls, "read",
                                    Touched(b, a[1], a[2]) \ b.readPages)
        /\ impl \in ReadWriteImpls =>
               \A script \in PrefetchScripts(b, a) :
                   LET r == Prefetch(impl, b, a[1], a[2], script)
                   IN r.err = "nil" =>
                          OneCallPerRun(b, r.calls, "read",
                                        Touched(b, a[1], a[2]) \ b.readPages)

C8_Witness ==
    /\ b.readPages # {}
    /\ \E a \in ValidArgs(b) :
           LET r == Read(impl, b, a[1], a[2], <<>>)
           IN r.err = "nil" /\ Len(r.calls) = 2

\* C9: a Flush that returns no error has made exactly one write call per
\* maximal run of dirty pages, in ascending order, each at the offset of its
\* run and over the pages of its run up to the end of the file, and has left
\* the backing store's bytes of the pages that were not dirty as they were
C9_OneWritePerDirtyRun ==
    \A script \in FlushScripts(b) :
        LET r == FlushOf(impl, b, script)
        IN r.err = "nil" =>
               /\ OneCallPerRun(b, r.calls, "write", b.dirtyPages)
               /\ Len(r.b.file) = Len(b.file)
               /\ \A p \in Pages(b) \ b.dirtyPages : FileBytes(r.b, p) = FileBytes(b, p)

C9_Witness ==
    /\ Cardinality(Runs(b.dirtyPages)) = 2
    /\ Len(FlushOf(impl, b, <<>>).calls) = 2
    /\ b.file # InitialFile(b.fileSize)

\* C10: a Flush one of whose underlying writes fails returns an error, makes
\* no call to the backing store after the failed one and leaves the dirty
\* tracker as it was
C10_FlushFailureKeepsDirty ==
    \A i \in 0..(NCalls(FlushOf(impl, b, AllFull)) - 1) :
        LET r == FlushOf(impl, b, FullPrefix(i) \o <<Err>> \o AllFull)
        IN /\ r.err # "nil"
           /\ Len(r.script) = Len(AllFull)
           /\ r.b.dirtyPages = b.dirtyPages

\* a script whose call number i + 1 fails, every other call transferring
\* everything asked for
FailAt(i) == FullPrefix(i) \o <<Err>> \o AllFull

\* the pages the calls of a sequence of calls cover
CallsPages(bb, calls) == UNION {CallPages(bb, calls[i]) : i \in DOMAIN calls}

\* r is the return of a fetch whose last read call failed: an error, no
\* underlying call after the failed one, the pages of the calls before the
\* last marked fetched and no other page newly marked
FetchAborted(r) ==
    /\ r.err = "EIO"
    /\ Len(r.script) = Len(AllFull)
    /\ r.calls # <<>>
    /\ r.b.readPages =
           b.readPages \cup CallsPages(b, SubSeq(r.calls, 1, Len(r.calls) - 1))

\* C11: a read, a write or a preread of a range of the file one of whose
\* underlying reads fails returns an error, reads no later sub-range, leaves
\* the sub-ranges read before the failing one marked fetched and marks no page
\* of the failing sub-range
C11_FetchFailureAborts ==
    \A a \in ValidArgs(b) :
        /\ \A i \in 0..(NCalls(Read(impl, b, a[1], a[2], AllFull)) - 1) :
               FetchAborted(Read(impl, b, a[1], a[2], FailAt(i)))
        /\ \A i \in 0..(NCalls(Write(impl, b, WriteData(a[2]), a[1], AllFull)) - 1) :
               FetchAborted(Write(impl, b, WriteData(a[2]), a[1], FailAt(i)))
        /\ impl \in ReadWriteImpls =>
               \A i \in 0..(NCalls(Prefetch(impl, b, a[1], a[2], AllFull)) - 1) :
                   FetchAborted(Prefetch(impl, b, a[1], a[2], FailAt(i)))

\* the page ranges [s, e) of the file, as the buffers hand them to the executor
PageRanges(bb) ==
    {pr \in [start : Pages(bb), end : 1..Cardinality(Pages(bb))] : pr.start < pr.end}

\* the bytes pwritev / preadv have transferred when their call number i + 1
\* fails after i full calls of at most MaxIov segments each
DoneBefore(segs, i) == iovsTotalLen(SubSeq(segs, 1, Min(Len(segs), i * MaxIov)))

\* x is the return of an executor call whose underlying call number i + 1
\* failed: the error, the bytes transferred so far, no further underlying call
ExecutorAborted(x, segs, i) ==
    /\ x.err = "EIO"
    /\ x.n = DoneBefore(segs, i)
    /\ Len(x.script) = Len(AllFull)

\* C12: for the segments of every page range of a sparse buffer, pwritevFull
\* and preadvFull one of whose underlying calls returns an error return that
\* error with the number of bytes transferred so far and issue no further
\* underlying call
C12_ExecutorPropagatesError ==
    impl \in Sparse =>
        \A pr \in PageRanges(b) :
            LET b0 == iovsForPageRange(b, pr)
                flat == FlatOf(b0.pages, pr.start, pr.end)
                segs == SegsOf(b0.pages, pr.start, pr.end, 0)
                off == pr.start * b.pageSize
            IN /\ \A i \in 0..(NCalls(pwritevFull(b0.file, flat, segs, off, AllFull)) - 1) :
                      ExecutorAborted(pwritevFull(b0.file, flat, segs, off, FailAt(i)),
                                      segs, i)
               /\ \A i \in 0..(NCalls(preadvFull(b0.file, flat, segs, off, AllFull)) - 1) :
                      ExecutorAborted(preadvFull(b0.file, flat, segs, off, FailAt(i)),
                                      segs, i)

\* C13: a WriteAt(p, off) of a range of the file that returns no error
\* returns n = len(p), the length of the slice the caller passed
C13_WriteAtReturnsLen ==
    impl \in ReadWriteImpls =>
        \A a \in ValidArgs(b) : \A script \in WriteScripts(b, a) :
            LET r == Write(impl, b, WriteData(a[2]), a[1], script)
            IN r.err = "nil" => r.n = a[2]

\* C14: a PutAt of a range of the file returns no error, issues no call to
\* the backing store and leaves the fetched tracker as it was, whether the
\* pages it touches were fetched or not
C14_PutAtDoesNotFetch ==
    impl \in GetPutImpls =>
        \A a \in ValidArgs(b) : \A script \in ScriptsFor(1) :
            LET w == Write(impl, b, WriteData(a[2]), a[1], script)
            IN /\ w.err = "nil"
               /\ w.calls = <<>>
               /\ w.script = script
               /\ w.b.readPages = b.readPages

\* a PutAt has written pages that were never fetched, next to a fetched page
C14_Witness ==
    /\ impl \in GetPutImpls
    /\ hist.written
    /\ b.readPages # {}
    /\ b.dirtyPages \ b.readPages # {}
    /\ \E a \in ValidArgs(b) :
           a[2] > 0 /\ Touched(b, a[1], a[2]) \cap b.readPages = {}

\* the byte of the buffer that mirrors byte j of the file, j counted from 1
BufferByteAt(bb, j) ==
    LET p == (j - 1) \div bb.pageSize
    IN BufferBytes(bb, p)[j - p * bb.pageSize]

\* C15: after a WriteAt(p, off) of a range of the file that returns no error,
\* every page of the touched page range is marked fetched, and the bytes
\* outside [off, off+len(p)) of the touched pages that the call had to fetch
\* equal the backing store's bytes
C15_WriteAtFetchesFirst ==
    impl \in ReadWriteImpls =>
        \A a \in ValidArgs(b) : \A script \in WriteScripts(b, a) :
            LET r == Write(impl, b, WriteData(a[2]), a[1], script)
            IN r.err = "nil" =>
                   /\ Touched(b, a[1], a[2]) \subseteq r.b.readPages
                   /\ \A p \in Touched(b, a[1], a[2]) \ b.readPages :
                          \A j \in (p * b.pageSize + 1)..PageEnd(b, p) :
                              (j <= a[1] \/ j > a[1] + a[2]) =>
                                  BufferByteAt(r.b, j) = b.file[j]

\* what the two forms must agree on: the error, the bytes handed back, the
\* calls made to the backing store and the buffer left behind (its page
\* buffers, its two trackers and the backing store)
SameOutcome(r1, r2) ==
    /\ r1.err = r2.err
    /\ r1.data = r2.data
    /\ r1.calls = r2.calls
    /\ r1.b = r2.b

\* C16: from every reachable state of a sparse buffer, a read, a write and a
\* flush have the same outcome through FileBuffer (ReadAt, WriteAt, Flush) and
\* through PagedFileBuffer (GetAt, PutAt, Flush), whatever the outcomes of the
\* underlying calls; the initial state being common to the two types, this is
\* what makes equal sequences of calls give equal reads, trackers, calls and
\* backing stores
C16_FormsEquivalent ==
    impl \in Sparse =>
        /\ \A a \in ValidArgs(b) :
               /\ \A script \in ScriptsFor(NCalls(FileBuffer_ReadAt(b, a[2], a[1], AllFull))) :
                      SameOutcome(FileBuffer_ReadAt(b, a[2], a[1], script),
                                  PagedFileBuffer_GetAt(b, a[1], a[2], script))
               /\ \A script \in ScriptsFor(NCalls(FileBuffer_WriteAt(b, WriteData(a[2]), a[1], AllFull))) :
                      SameOutcome(FileBuffer_WriteAt(b, WriteData(a[2]), a[1], script),
                                  PagedFileBuffer_PutAt(b, WriteData(a[2]), a[1], script))
        /\ \A script \in FlushScripts(b) :
               SameOutcome(FileBuffer_Flush(b, script), PagedFileBuffer_Flush(b, script))

\* the contiguous buffer that mirrors the sparse buffer bb: the same backing
\* store and trackers, its whole-file slice holding the bytes of the resident
\* pages and zeroes where no page is resident
Contiguous(bb) ==
    [bb EXCEPT !.pages = <<>>,
               !.buf = [j \in 1..bb.fileSize |->
                           LET p == (j - 1) \div bb.pageSize
                           IN IF p \in DOMAIN bb.pages
                              THEN bb.pages[p][j - p * bb.pageSize]
                              ELSE 0]]

\* the contiguous type with the calls of the sparse type i
ContiguousOf(i) == IF i = "FileBuffer" THEN "WholeFileBuffer" ELSE "WholeFileBufferGetPut"

\* the sparse call returned rs and the contiguous call rc: the same error and
\* bytes, and buffers that mirror each other
SameBehaviour(rs, rc) ==
    /\ rs.err = rc.err
    /\ rs.data = rc.data
    /\ Contiguous(rs.b) = rc.b

\* C17: from every reachable state of a sparse buffer and the contiguous
\* buffer that mirrors it, a read, a write, a preread and a flush of the two,
\* with valid arguments and no faulty underlying call, return the same error
\* and bytes and leave buffers that mirror each other: the same fetched and
\* dirty pages, the same buffered bytes and the same backing store
C17_StrategiesInterchangeable ==
    impl \in Sparse =>
        /\ \A a \in ValidArgs(b) :
               /\ SameBehaviour(Read(impl, b, a[1], a[2], <<>>),
                                Read(ContiguousOf(impl), Contiguous(b), a[1], a[2], <<>>))
               /\ SameBehaviour(Write(impl, b, WriteData(a[2]), a[1], <<>>),
                                Write(ContiguousOf(impl), Contiguous(b),
                                      WriteData(a[2]), a[1], <<>>))
               /\ impl \in ReadWriteImpls =>
                      SameBehaviour(Prefetch(impl, b, a[1], a[2], <<>>),
                                    Prefetch(ContiguousOf(impl), Contiguous(b),
                                             a[1], a[2], <<>>))
        /\ SameBehaviour(FlushOf(impl, b, <<>>),
                         FlushOf(ContiguousOf(impl), Contiguous(b), <<>>))

\* the ranges of the file that lie inside the range a
Inside(bb, a) == {c \in ValidArgs(bb) : c[1] >= a[1] /\ c[1] + c[2] <= a[1] + a[2]}

\* C18: after a Preread(off, length) of a range of the file that returns no
\* error, whatever the outcomes of its underlying calls, every page touched by
\* [off, off+length) is marked fetched and a ReadAt of any range inside
\* [off, off+length) returns no error and issues no read call to the backing
\* store, neither a range call nor an underlying call; and in whatever state
\* the buffer is later, a ReadAt whose touched pages are all marked fetched
\* issues no read call
C18_PrereadThenNoFetch ==
    impl \in ReadWriteImpls =>
        \A a \in ValidArgs(b) :
            /\ \A script \in PrefetchScripts(b, a) :
                   LET r == Prefetch(impl, b, a[1], a[2], script)
                   IN r.err = "nil" =>
                          /\ Touched(b, a[1], a[2]) \subseteq r.b.readPages
                          /\ \A c \in Inside(b, a) :
                                 LET x == Read(impl, r.b, c[1], c[2], AllFull)
                                 IN x.err = "nil" /\ x.calls = <<>> /\ NCalls(x) = 0
            /\ Touched(b, a[1], a[2]) \subseteq b.readPages =>
                   LET x == Read(impl, b, a[1], a[2], AllFull)
                   IN x.err = "nil" /\ x.calls = <<>> /\ NCalls(x) = 0

\* a Preread over fetched and unfetched pages is about to make two read calls
C18_Witness ==
    /\ impl \in ReadWriteImpls
    /\ b.readPages # {}
    /\ \E a \in ValidArgs(b) :
           LET r == Prefetch(impl, b, a[1], a[2], <<>>)
           IN /\ r.err = "nil"
              /\ Len(r.calls) = 2
              /\ Cardinality(r.b.readPages) = 3
              /\ Read(impl, r.b, a[1], a[2], <<>>).calls = <<>>

\* the buffers a retry of Flush may find after the buffer bb of a failed
\* Flush: bb itself, and bb after one more write of a range of the file
BeforeRetry(bb) ==
    {bb} \cup {Write(impl, bb, WriteData(a[2]), a[1], <<>>).b : a \in ValidArgs(bb)}

\* C19: when an underlying write of a Flush fails and a later Flush, with or
\* without a write in between, returns no error, the backing store's bytes of
\* every page that was dirty before the failed Flush equal the buffer's bytes
C19_FlushRetrySafe ==
    \A i \in 0..(NCalls(FlushOf(impl, b, AllFull)) - 1) :
        \A mid \in BeforeRetry(FlushOf(impl, b, FailAt(i)).b) :
            \A script \in FlushScripts(mid) :
                LET r == FlushOf(impl, mid, script)
                IN r.err = "nil" =>
                       \A p \in b.dirtyPages : FileBytes(r.b, p) = BufferBytes(r.b, p)

\* the pages [off/pageSize, (off+len-1)/pageSize] of a write of len > 0 bytes
WrittenPages(bb, off, len) ==
    {p \in Pages(bb) : off \div bb.pageSize <= p /\ p <= (off + len - 1) \div bb.pageSize}

\* C20: the dirty tracker is empty at construction and every call changes it
\* as the claim says: a write of non-empty data that returns no error adds
\* the pages it touches, a write of no data or one that returns an error
\* leaves it as it was, a read or a preread leaves it as it was, a Flush that
\* returns no error empties it and a Flush that returns an error leaves it as
\* it was
C20_DirtyTrackingExact ==
    /\ (~hist.written => b.dirtyPages = {})
    /\ \A a \in ValidArgs(b) :
           /\ \A script \in WriteScripts(b, a) :
                  LET r == Write(impl, b, WriteData(a[2]), a[1], script)
                  IN r.b.dirtyPages =
                         IF r.err = "nil" /\ a[2] > 0
                         THEN b.dirtyPages \cup WrittenPages(b, a[1], a[2])
                         ELSE b.dirtyPages
           /\ \A script \in ReadScripts(b, a) :
                  Read(impl, b, a[1], a[2], script).b.dirtyPages = b.dirtyPages
           /\ impl \in ReadWriteImpls =>
                  \A script \in PrefetchScripts(b, a) :
                      Prefetch(impl, b, a[1], a[2], script).b.dirtyPages = b.dirtyPages
    /\ \A script \in FlushScripts(b) :
           LET r == FlushOf(impl, b, script)
           IN r.b.dirtyPages = IF r.err = "nil" THEN {} ELSE b.dirtyPages

\* the executor has returned and every underlying call it issued returned no
\* error and transferred at least one byte
ExecProgressed == exec.pc = "done" /\ ~exec.erred /\ ~exec.stalled

\* byte k of the concatenation of the segments is at, or is from, file offset
\* offset + k, for every k below the total length
BackToBack(e) ==
    \A k \in 1..e.total :
        /\ e.offset0 + k <= Len(e.file)
        /\ e.file[e.offset0 + k] = e.flat[k]

\* C21: when pwritevFull or preadvFull has returned without error, every
\* underlying call having returned no error and transferred at least one
\* byte, byte k of the concatenation of the segments is at (was filled from)
\* file offset offset + k
C21_SegmentsBackToBack ==
    (ExecProgressed /\ exec.ret_err = "nil") => BackToBack(exec)

\* C22: the cumulative count of pwritevFull and preadvFull never exceeds the
\* sum of the segment lengths, and when they have returned, every underlying
\* call having returned no error and transferred at least one byte, the count
\* they return is exactly that sum
C22_ReturnsTotal ==
    /\ exec.pc \in {"call", "done"} =>
           exec.done <= exec.total /\ exec.ret_n <= exec.total
    /\ ExecProgressed => exec.ret_n = iovsTotalLen(exec.iovs0)

\* the longest list of the longest segments was transferred with a partial
\* transfer that made the loop of pwritevFull / preadvFull go round again
C22_Witness ==
    /\ ExecProgressed
    /\ exec.ret_n = MaxSegs * MaxSegLen
    /\ Len(exec.iovs0) > MaxIov
    /\ exec.iovs # exec.iovs0

\* C23: pwritevFull and preadvFull eventually return, whatever the underlying
\* calls return, a transfer of zero bytes with no error included
C23_ExecutorTerminates == <>(exec.pc = "done")

\* the segments of one underlying call keep the order they were given in
InOriginalOrder(e) ==
    \A i, j \in DOMAIN e.last :
        (i < j /\ e.last[i] # <<>> /\ e.last[j] # <<>>)
            => SegId(e.iovs0, e.last[i]) < SegId(e.iovs0, e.last[j])

\* C24: every underlying vectored call receives at least one and at most
\* SC_UIO_MAXIOV segments, in their original order, and no segment is passed
\* to two calls that each transferred all they were given with no error
C24_ChunksWellFormed ==
    exec.called =>
        /\ Len(exec.last) >= 1
        /\ Len(exec.last) <= MaxIov
        /\ InOriginalOrder(exec)
        /\ ~exec.twice

\* r is iovs less its first n bytes: leading segments holding at most n bytes
\* are dropped, the next one is cut at its front, the others are unchanged
AdjustedBy(iovs, n, r) ==
    /\ Flatten(r) = SubSeq(Flatten(iovs), n + 1, iovsTotalLen(iovs))
    /\ iovsTotalLen(r) = iovsTotalLen(iovs) - n
    /\ \E k \in 0..Len(iovs) :
           LET consumed == iovsTotalLen(SubSeq(iovs, 1, k))
           IN /\ consumed <= n
              /\ Len(r) = Len(iovs) - k
              /\ r # <<>> => r[1] = SliceFrom(iovs[k + 1], n - consumed)
              /\ \A i \in 2..Len(r) : r[i] = iovs[k + i]

\* C25: for every segment list and every 0 <= n <= total length,
\* iovsAdjust(iovs, n) is the list less its first n bytes; the lists are the
\* one the executor was given and every list it adjusted it to
C25_IovsAdjustRemovesPrefix ==
    \A iovs \in {exec.iovs0, exec.iovs} :
        \A n \in 0..iovsTotalLen(iovs) : AdjustedBy(iovs, n, iovsAdjust(iovs, n))

\* the executor has adjusted its list after a partial transfer: a leading
\* segment is gone and a two-byte segment is down to its second byte
C25_Witness ==
    /\ exec.called
    /\ exec.iovs # <<>>
    /\ Len(exec.iovs) < Len(exec.iovs0)
    /\ Len(exec.iovs[1]) = 1
    /\ Len(exec.iovs0[SegId(exec.iovs0, exec.iovs[1])]) = 2
    /\ exec.iovs = iovsAdjust(exec.iovs0, exec.done)

\* C26: pwritevFull and preadvFull given no segments, or segments of total
\* length zero, return (0, nil) and issue no underlying call
C26_ZeroLengthShortCircuits ==
    (exec.pc # "start" /\ iovsTotalLen(exec.iovs0) = 0) =>
        /\ exec.pc = "done"
        /\ exec.ret_n = 0
        /\ exec.ret_err = "nil"
        /\ ~exec.called

\* the executor has returned from a call with several segments, all empty
C26_Witness ==
    /\ exec.pc = "done"
    /\ Len(exec.iovs0) = MaxSegs
    /\ iovsTotalLen(exec.iovs0) = 0
    /\ ~exec.called

\* the executor has returned from a call with no segment at all
C26_WitnessNoSegments == exec.pc = "done" /\ exec.iovs0 = <<>> /\ ~exec.called

\* the backing store expected after a write of the range a to a buffer that
\* no write was applied to, followed by a flush: the bytes of the write in
\* the range, the original bytes everywhere else
StoreAfterWrite(bb, a) ==
    [j \in 1..bb.fileSize |->
        IF a[1] < j /\ j <= a[1] + a[2] THEN WriteByte ELSE InitialFile(bb.fileSize)[j]]

\* C27: write-back never corrupts unwritten data. On a buffer that no write
\* was applied to and whose reads all returned without error, after a write
\* of any range of the file and a flush, each served by underlying calls
\* that transfer all they are asked for, every byte of the backing store
\* outside the range has its original value and every byte inside has the
\* value written; the range may cover only part of a page never fetched
C27_WriteBackKeepsUnwritten ==
    (~hist.written /\ ~hist.fetchErr /\ b.file = InitialFile(b.fileSize)) =>
        \A a \in ValidArgs(b) :
            LET w == Write(impl, b, WriteData(a[2]), a[1], AllFull)
                f == FlushOf(impl, w.b, AllFull)
            IN (w.err = "nil" /\ f.err = "nil") => f.b.file = StoreAfterWrite(b, a)

\* the buffer holds page p and its bytes are those of the backing store
HoldsStoreBytes(bb, p) ==
    /\ impl \in Sparse => p \in DOMAIN bb.pages
    /\ BufferBytes(bb, p) = FileBytes(bb, p)

\* C28: a page is marked fetched only when all its bytes were transferred
\* from the backing store: as long as no write was applied to the buffer,
\* every page marked fetched holds the backing store's bytes, whatever the
\* underlying reads returned (short, or an error)
C28_FetchedMeansTransferred ==
    ~hist.written => \A p \in b.readPages \cap Pages(b) : HoldsStoreBytes(b, p)

\* the call that returned r left the fetched tracker with every bit it had
KeepsFetched(r) == b.readPages \subseteq r.b.readPages

\* C29: the fetched and the dirty tracker are independent and the fetched
\* tracker only grows: in every reachable state, for every call and every
\* outcome of its underlying calls, Flush leaves the fetched tracker and the
\* buffered bytes as they are, a read or preread leaves the dirty tracker as
\* it is, and no call clears a fetched bit
C29_TrackersIndependent ==
    /\ \A script \in FlushScripts(b) :
           LET f == FlushOf(impl, b, script)
           IN /\ f.b.readPages = b.readPages
              /\ f.b.pages = b.pages
              /\ f.b.buf = b.buf
    /\ \A a \in Args(b.fileSize) : \A script \in ReadScripts(b, a) :
           LET r == Read(impl, b, a[1], a[2], script)
           IN r.b.dirtyPages = b.dirtyPages /\ KeepsFetched(r)
    /\ impl \in ReadWriteImpls =>
           \A a \in ValidArgs(b) : \A script \in PrefetchScripts(b, a) :
               LET r == Prefetch(impl, b, a[1], a[2], script)
               IN r.b.dirtyPages = b.dirtyPages /\ KeepsFetched(r)
    /\ \A a \in Args(b.fileSize) : \A script \in WriteScripts(b, a) :
           KeepsFetched(Write(impl, b, WriteData(a[2]), a[1], script))

\* a flush has written pages back, and the buffer has since then a page
\* marked dirty next to a page marked fetched that is clean
C29_Witness ==
    /\ \E j \in DOMAIN b.file : b.file[j] = WriteByte
    /\ b.dirtyPages # {}
    /\ b.readPages \ b.dirtyPages # {}

\* the length of the buffer of page p of the file: pageSize, and what is left
\* of the file for its last page
PageLen(bb, p) == PageEnd(bb, p) - p * bb.pageSize

\* the resident pages are pages of the file and their buffers have the
\* length of their page
ResidentWellFormed(bb) ==
    \A p \in DOMAIN bb.pages : p \in Pages(bb) /\ Len(bb.pages[p]) = PageLen(bb, p)

\* the call on the range (off, length) that returned r kept every resident
\* buffer, at its length, and made resident only pages the range touches
ResidentGrows(r, off, length) ==
    /\ \A p \in DOMAIN b.pages :
           p \in DOMAIN r.b.pages /\ Len(r.b.pages[p]) = Len(b.pages[p])
    /\ (DOMAIN r.b.pages) \ (DOMAIN b.pages) \subseteq Touched(b, off, length)

\* C30: the sparse-storage invariant. In every reachable state of a sparse
\* buffer each resident page is a page of the file and its buffer has length
\* pageSize, or fileSize - p*pageSize for the last page; and every call
\* keeps the resident buffers and makes resident only pages it touches
C30_SparseStorage ==
    impl \in Sparse =>
        /\ ResidentWellFormed(b)
        /\ \A script \in FlushScripts(b) : FlushOf(impl, b, script).b.pages = b.pages
        /\ \A a \in ValidArgs(b) :
               /\ \A script \in ReadScripts(b, a) :
                      ResidentGrows(Read(impl, b, a[1], a[2], script), a[1], a[2])
               /\ \A script \in WriteScripts(b, a) :
                      ResidentGrows(Write(impl, b, WriteData(a[2]), a[1], script), a[1], a[2])

\* the call that returned r issued no call to the backing store and left the
\* buffer, its trackers and the backing store as they were
NoOp(r) == r.calls = <<>> /\ r.b = b

\* C31: a zero-length operation at any offset 0 <= off <= fileSize is a no-op
\* on state: a zero-length read or preread fetches no page and issues no
\* backing-store call, a zero-length write marks no page dirty, and a Flush
\* following it writes what a Flush before it would have written
C31_ZeroLengthNoOp ==
    \A off \in 0..b.fileSize :
        /\ \A script \in ReadScripts(b, <<off, 0>>) :
               NoOp(Read(impl, b, off, 0, script))
        /\ impl \in ReadWriteImpls =>
               \A script \in PrefetchScripts(b, <<off, 0>>) :
                   NoOp(Prefetch(impl, b, off, 0, script))
        /\ \A script \in WriteScripts(b, <<off, 0>>) :
               LET w == Write(impl, b, <<>>, off, script)
               IN /\ w.calls = <<>>
                  /\ w.b.dirtyPages = b.dirtyPages
                  /\ FlushOf(impl, w.b, AllFull).calls = FlushOf(impl, b, AllFull).calls

\* the non-negative values of the integer type of offsets and lengths
NonNegInts == 0..MaxInt64

\* C32: checkOffsetAndLength returns the out-of-bounds error for every
\* off >= 0 and length >= 0 of the integer type whose sum, as a mathematical
\* integer, exceeds the size of the file, also when the sum wraps around
C32_RejectsBeyondEnd ==
    \A off \in NonNegInts, length \in NonNegInts :
        off + length > b.fileSize =>
            checkOffsetAndLength(b.fileSize, off, length) = "offset and length out of bounds"

====
